---- MODULE Spec2Model ----
(***************************************************************************)
(* Business-hours calculator (chamados.calculate_working_hours) and the    *)
(* ticket-aging views built on it (dashboard, technicians page, report,    *)
(* NLQ) of the OS700 help-desk application.                                *)
(*                                                                         *)
(* A datetime is a record [t, aware]: t is the civil time in seconds since *)
(* Monday 00:00:00 of week 0, aware tells whether the value carries a      *)
(* tzinfo (datetime.now(FORTALEZA_TZ)) or not (datetime.strptime,          *)
(* datetime.combine).  Python refuses to order or subtract a naive and an  *)
(* aware datetime (TypeError).                                             *)
(***************************************************************************)
EXTENDS Integers, Sequences, FiniteSets, TLC

\* one call of calculate_working_hours: parameters, locals, outcome
VARIABLES start, end, pc, current, total_seconds, result, iters

\* the datastore tables, the Fortaleza wall clock, and what the last script
\* run of the application put on the screen
VARIABLES chamados, pecas_usadas, historico_manutencao, agora, tela, n_finalizar

\* add_chamado calls that have read the protocol list and not yet inserted
\* their ticket (one slot per server process), and st.session_state of the
\* browser session
VARIABLES pendentes, session_state

calc_vars == <<start, end, pc, current, total_seconds, result, iters>>

app_vars == <<chamados, pecas_usadas, historico_manutencao, agora, tela, n_finalizar>>

web_vars == <<pendentes, session_state>>

(* ----------------------------- bounds --------------------------------- *)

\* last calendar day (0 = Monday of week 0) of the grid the inputs are drawn
\* from
MaxDay == 9

\* largest number of whole weeks k of the spans start -> start + 7k days
MaxWeeks == 2

\* most tickets ever opened
MaxChamados == 2

\* most finalizar_chamado calls in one behaviour
MaxFinalizar == 2

(* --------------------------- time arithmetic --------------------------- *)

HourSecs == 3600

DaySecs == 86400

Min(a, b) == IF a <= b THEN a ELSE b

Max(a, b) == IF a >= b THEN a ELSE b

\* half-hour marks of the day the inputs are drawn from (in half hours):
\* 00:00 06:00 08:00 09:00 11:00 12:00 12:30 13:00 13:30 16:30 17:00 20:00
TimesOfDay == {0, 12, 16, 18, 22, 24, 25, 26, 27, 33, 34, 40}

At(day, halfhours) == day * DaySecs + halfhours * 1800

naive(t) == [t |-> t, aware |-> FALSE]

aware(t) == [t |-> t, aware |-> TRUE]

\* datetime.date(): the calendar day number
date(dt) == dt.t \div DaySecs

\* datetime.weekday(): Monday = 0 ... Sunday = 6
weekday(dt) == date(dt) % 7

\* current.replace(hour=h, minute=0, second=0, microsecond=0): keeps tzinfo
replace_hour(dt, h) == [t |-> date(dt) * DaySecs + h * HourSecs, aware |-> dt.aware]

next_midnight_of_same_day(dt) == [t |-> date(dt) * DaySecs, aware |-> FALSE]

next_midnight_keep_time(dt) == [t |-> dt.t + DaySecs, aware |-> FALSE]

\* datetime.combine(current.date() + timedelta(days=1), datetime.min.time()):
\* midnight of the next calendar day, always naive
next_midnight(dt) == [t |-> (date(dt) + 1) * DaySecs, aware |-> FALSE]

\* ordering two datetimes is defined only when both are naive or both aware
comparable(a, b) == a.aware = b.aware

(* ------------------------ calculate_working_hours ---------------------- *)

morning_start(cur) == replace_hour(cur, 8)

morning_end_13(cur) == replace_hour(cur, 13)

morning_end(cur) == replace_hour(cur, 12)

afternoon_start(cur) == replace_hour(cur, 13)

afternoon_end_18(cur) == replace_hour(cur, 18)

afternoon_end(cur) == replace_hour(cur, 17)

is_weekend_sunday_only(cur) == weekday(cur) > 5

\* Saturday (5) or Sunday (6)
is_weekend(cur) == weekday(cur) >= 5

shift_seconds_whole_shift_only(cur, e, shift_start, shift_end) ==
    IF e.t >= shift_end.t
    THEN LET interval_start == Max(cur.t, shift_start.t)
             interval_end   == Min(e.t, shift_end.t)
         IN  IF interval_end > interval_start
             THEN interval_end - interval_start
             ELSE 0
    ELSE 0

shift_seconds_unclipped(cur, e, shift_start, shift_end) ==
    IF e.t > shift_start.t
    THEN Min(e.t, shift_end.t) - Max(cur.t, shift_start.t)
    ELSE 0

shift_seconds_from_shift_start(cur, e, shift_start, shift_end) ==
    IF e.t > shift_start.t
    THEN LET interval_start == shift_start.t
             interval_end   == Min(e.t, shift_end.t)
         IN  IF interval_end > interval_start
             THEN interval_end - interval_start
             ELSE 0
    ELSE 0

\* one shift's contribution: if end > shift_start, the positive part of
\* min(end, shift_end) - max(current, shift_start)
shift_seconds(cur, e, shift_start, shift_end) ==
    IF e.t > shift_start.t
    THEN LET interval_start == Max(cur.t, shift_start.t)
             interval_end   == Min(e.t, shift_end.t)
         IN  IF interval_end > interval_start
             THEN interval_end - interval_start
             ELSE 0
    ELSE 0

\* what one weekday iteration of the loop adds to total_seconds
day_seconds(cur, e) ==
    shift_seconds(cur, e, morning_start(cur), morning_end(cur))
    + shift_seconds(cur, e, afternoon_start(cur), afternoon_end(cur))

Returned(secs) == [exc |-> "None", seconds |-> secs]

TypeError == [exc |-> "TypeError", seconds |-> 0]

NoResult == [exc |-> "pending", seconds |-> 0]

\* the while loop, from its test on
RECURSIVE working_loop(_, _, _)
working_loop(cur, e, total) ==
    IF ~comparable(cur, e) THEN TypeError
    ELSE IF ~(cur.t < e.t) THEN Returned(total)
    ELSE IF is_weekend(cur) THEN working_loop(next_midnight(cur), e, total)
    ELSE working_loop(next_midnight(cur), e, total + day_seconds(cur, e))

\* the function as its callers see it: a timedelta (in seconds) or TypeError
calculate_working_hours(s, e) ==
    IF ~comparable(s, e) THEN TypeError
    ELSE IF s.t >= e.t THEN Returned(0)
    ELSE working_loop(s, e, 0)

(* ------------------ the calculator, statement by statement ------------- *)

Days == 0..MaxDay

GridTimes == {At(d, h) : d \in Days, h \in TimesOfDay}

\* start is drawn from the first week; end from the grid, or a whole number
\* of weeks after start
StartTimes == {At(d, h) : d \in 0..6, h \in TimesOfDay}

EndTimes(s) == GridTimes \cup {s + 7 * k * DaySecs : k \in 1..MaxWeeks}

Datetimes(S) == {naive(t) : t \in S} \cup {aware(t) : t \in S}

\* the server threads that may run add_chamado at the same time
Workers == {"w1", "w2"}

\* a thread that is not inside add_chamado
NoCall == [ativo |-> FALSE]

\* st.session_state after the defaults are installed
session_state_init == [logged_in |-> FALSE, username |-> ""]

CalcInit ==
    /\ start \in Datetimes(StartTimes)
    /\ end \in Datetimes(EndTimes(start.t))
    /\ pc = "call"
    /\ current = start
    /\ total_seconds = 0
    /\ result = NoResult
    /\ iters = 0
    /\ chamados = <<>>
    /\ pecas_usadas = <<>>
    /\ historico_manutencao = <<>>
    /\ agora = 0
    /\ tela = [page |-> "nenhuma"]
    /\ n_finalizar = 0
    /\ pendentes = [w \in Workers |-> NoCall]
    /\ session_state = session_state_init

\* if start >= end: return timedelta(0)
ReturnZero ==
    /\ pc = "call"
    /\ comparable(start, end)
    /\ start.t >= end.t
    /\ pc' = "done"
    /\ result' = Returned(0)
    /\ UNCHANGED <<start, end, current, total_seconds, iters>>
    /\ UNCHANGED <<app_vars, web_vars>>

\* total_seconds = 0; current = start
EnterLoop ==
    /\ pc = "call"
    /\ comparable(start, end)
    /\ start.t < end.t
    /\ pc' = "loop"
    /\ current' = start
    /\ total_seconds' = 0
    /\ UNCHANGED <<start, end, result, iters>>
    /\ UNCHANGED <<app_vars, web_vars>>

\* a comparison of a naive with an aware datetime: start >= end on entry, or
\* current < end at the loop test
RaiseTypeError ==
    /\ \/ pc = "call" /\ ~comparable(start, end)
       \/ pc = "loop" /\ ~comparable(current, end)
    /\ pc' = "raised"
    /\ result' = TypeError
    /\ UNCHANGED <<start, end, current, total_seconds, iters>>
    /\ UNCHANGED <<app_vars, web_vars>>

\* weekend iteration: skip to the next day
SkipWeekend ==
    /\ pc = "loop"
    /\ comparable(current, end)
    /\ current.t < end.t
    /\ is_weekend(current)
    /\ current' = next_midnight(current)
    /\ iters' = iters + 1
    /\ UNCHANGED <<start, end, pc, total_seconds, result>>
    /\ UNCHANGED <<app_vars, web_vars>>

\* weekday iteration: add both shifts, then move to the next day
AccrueWeekday ==
    /\ pc = "loop"
    /\ comparable(current, end)
    /\ current.t < end.t
    /\ ~is_weekend(current)
    /\ total_seconds' = total_seconds + day_seconds(current, end)
    /\ current' = next_midnight(current)
    /\ iters' = iters + 1
    /\ UNCHANGED <<start, end, pc, result>>
    /\ UNCHANGED <<app_vars, web_vars>>

\* loop exit: return timedelta(seconds=total_seconds)
ReturnTotal ==
    /\ pc = "loop"
    /\ comparable(current, end)
    /\ ~(current.t < end.t)
    /\ pc' = "done"
    /\ result' = Returned(total_seconds)
    /\ UNCHANGED <<start, end, current, total_seconds, iters>>
    /\ UNCHANGED <<app_vars, web_vars>>

CalcNext ==
    \/ ReturnZero
    \/ EnterLoop
    \/ RaiseTypeError
    \/ SkipWeekend
    \/ AccrueWeekday
    \/ ReturnTotal

vars == <<start, end, pc, current, total_seconds, result, iters,
          chamados, pecas_usadas, historico_manutencao, agora, tela, n_finalizar,
          pendentes, session_state>>

Spec == CalcInit /\ [][CalcNext]_vars

\* the interpreter always executes the next statement of the call
FairSpec == Spec /\ WF_vars(CalcNext)


(* ----------------------- tickets: the datastore ------------------------ *)

\* Python None / SQL NULL
None == [null |-> TRUE]

\* float('nan')
NaN == [nan |-> TRUE]

Num(x) == [num |-> x]

\* dt.strftime('%d/%m/%Y %H:%M:%S'): the civil fields as text; the tzinfo
\* is not written
strftime(dt) ==
    [dia |-> dt.t \div DaySecs,
     H   |-> (dt.t % DaySecs) \div HourSecs,
     M   |-> (dt.t % HourSecs) \div 60,
     S   |-> dt.t % 60]

\* a stored text that is not in the format '%d/%m/%Y %H:%M:%S'
BadText == [str |-> "2024-01-08T08:00:00"]

\* whether strptime accepts the value: None raises TypeError, a text in
\* another format raises ValueError
parses(v) == "dia" \in DOMAIN v

\* datetime.strptime(txt, '%d/%m/%Y %H:%M:%S'): a timezone-naive datetime
\* (callers test parses(txt) where the code's try/except catches the error)
strptime(txt) == naive(txt.dia * DaySecs + txt.H * HourSecs + txt.M * 60 + txt.S)

\* pandas NaT
NaT == [nat |-> TRUE]

to_datetime_coercing_all(v) == NaT

\* pd.to_datetime(v, format='%d/%m/%Y %H:%M:%S', errors='coerce')
to_datetime(v) == IF parses(v) THEN strptime(v) ELSE NaT

\* datetime.now(FORTALEZA_TZ) read by a script run that happens at wall-clock
\* time t (not before the previous run): timezone-aware
now_fortaleza(t) == aware(t)

RunsAt(t) == t >= agora /\ agora' = t

\* the instants at which the application is used: Monday 08:00, then the
\* next Tuesday 08:00 (48 business hours later) and 09:00 (49)
ClockTimes == {At(0, 16), At(8, 16), At(8, 18)}

Patrimonios == {None, [str |-> "PAT-1"]}

PecasChoices == {<<>>, <<"Fonte">>}

\* the text typed for the awaited part: left empty, or a part name
PecaTexts == {[str |-> ""], [str |-> "Fonte"]}

\* choices of the SLA input of the report and of the hours of the NLQ intent
HoursChoices == {24, 48}

SeqMax(seq) == CHOOSE m \in {seq[i] : i \in DOMAIN seq} :
                   \A i \in DOMAIN seq : seq[i] <= m

gerar_protocolo_sequencial_without_increment ==
    LET protocolos == [i \in DOMAIN chamados |-> chamados[i].protocolo]
    IN  IF Len(protocolos) > 0 THEN SeqMax(protocolos) ELSE 1

\* max(protocolo) + 1 over the stored tickets, 1 when there is none
gerar_protocolo_sequencial ==
    LET protocolos == [i \in DOMAIN chamados |-> chamados[i].protocolo]
    IN  IF Len(protocolos) > 0 THEN SeqMax(protocolos) + 1 ELSE 1

Msg(text) == [page |-> "mensagem", texto |-> text]

\* st.success(f"Chamado {id_chamado} ...")
MsgId(text, id_chamado) == [page |-> "mensagem", texto |-> text, id |-> id_chamado]

\* the outcome finalizar_chamado reports for the ticket and the parts that
\* were entered in the form
MsgFinalizar(text, id_chamado, pecas) ==
    [page |-> "mensagem", texto |-> text, id |-> id_chamado, pecas |-> pecas]

NoPage == [page |-> "nenhuma"]

\* TECHNICIAN_WHATSAPP_NUMBER split at the commas
numbers_list == <<"whatsapp:+5588000001", "whatsapp:+5588000002">>

\* what the environment does to one notification: a Twilio setting is
\* missing; Client(...) raises; or each messages.create succeeds or raises
NoTwilioSettings == [settings |-> FALSE]

TwilioOutcomes ==
    {NoTwilioSettings, [settings |-> TRUE, client |-> FALSE]}
    \cup {[settings |-> TRUE, client |-> TRUE, create |-> f] :
             f \in [DOMAIN numbers_list -> BOOLEAN]}

send_loop_stopping_at_first_error(twilio) ==
    LET failed == {i \in DOMAIN numbers_list : ~twilio.create[i]}
        last == IF failed = {} THEN Len(numbers_list)
                ELSE CHOOSE i \in failed : \A j \in failed : i <= j
    IN  [i \in 1..last |-> [to |-> numbers_list[i], sent |-> twilio.create[i]]]

\* for number in numbers_list: try: client.messages.create(...) except: st.error
send_loop(twilio) ==
    [i \in DOMAIN numbers_list |-> [to |-> numbers_list[i], sent |-> twilio.create[i]]]

\* send_whatsapp_message: the messages.create calls it attempted, in order
send_whatsapp_message(twilio) ==
    IF ~twilio.settings THEN <<>>
    ELSE IF ~twilio.client THEN <<>>
    ELSE send_loop(twilio)

\* st.success / st.error of add_chamado together with its return value and
\* the notification attempts it made
MsgRet(text, retorno, twilio, attempts) ==
    [page |-> "mensagem", texto |-> text, retorno |-> retorno,
     twilio |-> twilio, whatsapp |-> attempts]

\* the row add_chamado inserts
novo_chamado(protocolo, hora_local, patrimonio) ==
    [id |-> Len(chamados) + 1,
     hora_abertura |-> hora_local,
     hora_fechamento |-> None,
     solucao |-> None,
     protocolo |-> protocolo,
     patrimonio |-> patrimonio,
     status_chamado |-> None,
     peca_necessaria |-> None,
     tecnico_responsavel |-> None]

\* add_chamado run without interruption: the row opens with the current
\* Fortaleza time as text; the notification is attempted after the insert
add_chamado(t, patrimonio, twilio) ==
    /\ RunsAt(t)
    /\ Len(chamados) < MaxChamados
    /\ LET protocolo == gerar_protocolo_sequencial
           hora_local == strftime(now_fortaleza(t))
       IN  /\ chamados' = Append(chamados, novo_chamado(protocolo, hora_local, patrimonio))
           /\ tela' = MsgRet("Chamado aberto com sucesso!", Num(protocolo),
                             twilio, send_whatsapp_message(twilio))
    /\ UNCHANGED <<pecas_usadas, historico_manutencao, n_finalizar>>
    /\ UNCHANGED <<calc_vars, web_vars>>

\* the places where the datastore can raise inside add_chamado
AddFailures == {"protocolo", "insert"}

\* add_chamado when the select of gerar_protocolo_sequencial raises (it
\* returns None and add_chamado returns None before the insert) or when the
\* insert raises (outer except): nothing is stored, nothing is notified
add_chamado_erro(t, etapa) ==
    /\ RunsAt(t)
    /\ tela' = MsgRet(IF etapa = "protocolo" THEN "Erro ao gerar protocolo."
                                             ELSE "Erro ao adicionar chamado.",
                      None, NoTwilioSettings, <<>>)
    /\ UNCHANGED <<chamados, pecas_usadas, historico_manutencao, n_finalizar>>
    /\ UNCHANGED <<calc_vars, web_vars>>

\* add_chamado in thread w up to the insert: gerar_protocolo_sequencial has
\* selected the protocol column (resp.data, `visto` rows) and returned, and
\* hora_local is taken; no lock is held
add_chamado_gera_protocolo(w, t) ==
    /\ RunsAt(t)
    /\ ~pendentes[w].ativo
    /\ pendentes' = [pendentes EXCEPT ![w] =
                        [ativo |-> TRUE,
                         visto |-> Len(chamados),
                         protocolo |-> gerar_protocolo_sequencial,
                         hora_local |-> strftime(now_fortaleza(t))]]
    /\ UNCHANGED <<chamados, pecas_usadas, historico_manutencao, tela, n_finalizar>>
    /\ UNCHANGED <<calc_vars, session_state>>

add_chamado_insere_rereading_protocol(w, t, patrimonio) ==
    /\ RunsAt(t)
    /\ pendentes[w].ativo
    /\ Len(chamados) < MaxChamados
    /\ chamados' = Append(chamados, novo_chamado(gerar_protocolo_sequencial,
                                                 pendentes[w].hora_local, patrimonio))
    /\ tela' = MsgRet("Chamado aberto com sucesso!", Num(gerar_protocolo_sequencial),
                      NoTwilioSettings, <<>>)
    /\ pendentes' = [pendentes EXCEPT ![w] = NoCall]
    /\ UNCHANGED <<pecas_usadas, historico_manutencao, n_finalizar>>
    /\ UNCHANGED <<calc_vars, session_state>>

\* the rest of add_chamado in thread w: insert(data) with the protocol read
\* before, notification (no Twilio settings here), st.success, return
add_chamado_insere(w, t, patrimonio) ==
    /\ RunsAt(t)
    /\ pendentes[w].ativo
    /\ Len(chamados) < MaxChamados
    /\ chamados' = Append(chamados, novo_chamado(pendentes[w].protocolo,
                                                 pendentes[w].hora_local, patrimonio))
    /\ tela' = MsgRet("Chamado aberto com sucesso!", Num(pendentes[w].protocolo),
                      NoTwilioSettings, <<>>)
    /\ pendentes' = [pendentes EXCEPT ![w] = NoCall]
    /\ UNCHANGED <<pecas_usadas, historico_manutencao, n_finalizar>>
    /\ UNCHANGED <<calc_vars, session_state>>

finalizar_chamado_keeping_status(t, id_chamado, solucao, pecas) ==
    /\ RunsAt(t)
    /\ n_finalizar < MaxFinalizar
    /\ n_finalizar' = n_finalizar + 1
    /\ LET hora_fechamento_local == strftime(now_fortaleza(t))
           resp == SelectSeq(chamados, LAMBDA c : c.id = id_chamado)
           patrimonio == IF Len(resp) > 0 THEN resp[1].patrimonio ELSE None
       IN  /\ chamados' =
                 [i \in DOMAIN chamados |->
                     IF chamados[i].id = id_chamado
                     THEN [chamados[i] EXCEPT
                              !.solucao = solucao,
                              !.hora_fechamento = hora_fechamento_local]
                     ELSE chamados[i]]
           /\ pecas_usadas' = pecas_usadas \o
                 [j \in DOMAIN pecas |->
                     [chamado_id |-> id_chamado,
                      peca_nome |-> pecas[j],
                      data_uso |-> hora_fechamento_local]]
           /\ historico_manutencao' =
                 IF patrimonio # None
                 THEN Append(historico_manutencao,
                             [numero_patrimonio |-> patrimonio,
                              solucao |-> solucao,
                              pecas |-> pecas,
                              data_manutencao |-> hora_fechamento_local])
                 ELSE historico_manutencao
    /\ tela' = MsgFinalizar("Chamado finalizado.", id_chamado, pecas)
    /\ UNCHANGED <<calc_vars, web_vars>>

\* finalizar_chamado: update ... eq("id", id_chamado), one pecas_usadas row
\* per part, one historico_manutencao row when the ticket has a patrimonio
finalizar_chamado(t, id_chamado, solucao, pecas) ==
    /\ RunsAt(t)
    /\ n_finalizar < MaxFinalizar
    /\ n_finalizar' = n_finalizar + 1
    /\ LET hora_fechamento_local == strftime(now_fortaleza(t))
           resp == SelectSeq(chamados, LAMBDA c : c.id = id_chamado)
           patrimonio == IF Len(resp) > 0 THEN resp[1].patrimonio ELSE None
       IN  /\ chamados' =
                 [i \in DOMAIN chamados |->
                     IF chamados[i].id = id_chamado
                     THEN [chamados[i] EXCEPT
                              !.solucao = solucao,
                              !.hora_fechamento = hora_fechamento_local,
                              !.status_chamado = None,
                              !.peca_necessaria = None,
                              !.tecnico_responsavel = None]
                     ELSE chamados[i]]
           /\ pecas_usadas' = pecas_usadas \o
                 [j \in DOMAIN pecas |->
                     [chamado_id |-> id_chamado,
                      peca_nome |-> pecas[j],
                      data_uso |-> hora_fechamento_local]]
           /\ historico_manutencao' =
                 IF patrimonio # None
                 THEN Append(historico_manutencao,
                             [numero_patrimonio |-> patrimonio,
                              solucao |-> solucao,
                              pecas |-> pecas,
                              data_manutencao |-> hora_fechamento_local])
                 ELSE historico_manutencao
    /\ tela' = MsgFinalizar("Chamado finalizado.", id_chamado, pecas)
    /\ UNCHANGED <<calc_vars, web_vars>>

\* the datastore calls of finalizar_chamado that can raise: the update of
\* the ticket, the insert of a part, the select of the patrimonio, the insert
\* of the maintenance record
FinalizarFailures == {"update", "pecas_usadas", "select", "historico_manutencao"}

\* finalizar_chamado when the datastore raises at call `etapa`: the writes
\* made before it stay (there is no transaction and the except clause only
\* reports), the later ones are never made
finalizar_chamado_erro(t, id_chamado, solucao, pecas, etapa) ==
    /\ RunsAt(t)
    /\ n_finalizar < MaxFinalizar
    /\ n_finalizar' = n_finalizar + 1
    /\ etapa = "pecas_usadas" => pecas # <<>>
    /\ LET hora_fechamento_local == strftime(now_fortaleza(t))
           resp == SelectSeq(chamados, LAMBDA c : c.id = id_chamado)
           patrimonio == IF Len(resp) > 0 THEN resp[1].patrimonio ELSE None
           feitas == IF etapa = "update" THEN {<<>>}
                     ELSE IF etapa = "pecas_usadas"
                          THEN {SubSeq(pecas, 1, j - 1) : j \in DOMAIN pecas}
                          ELSE {pecas}
       IN  /\ etapa = "historico_manutencao" => patrimonio # None
           /\ chamados' =
                 IF etapa = "update" THEN chamados
                 ELSE [i \in DOMAIN chamados |->
                         IF chamados[i].id = id_chamado
                         THEN [chamados[i] EXCEPT
                                  !.solucao = solucao,
                                  !.hora_fechamento = hora_fechamento_local,
                                  !.status_chamado = None,
                                  !.peca_necessaria = None,
                                  !.tecnico_responsavel = None]
                         ELSE chamados[i]]
           /\ \E inseridas \in feitas :
                 pecas_usadas' = pecas_usadas \o
                    [j \in DOMAIN inseridas |->
                        [chamado_id |-> id_chamado,
                         peca_nome |-> inseridas[j],
                         data_uso |-> hora_fechamento_local]]
    /\ tela' = MsgFinalizar("Erro ao finalizar chamado.", id_chamado, pecas)
    /\ UNCHANGED historico_manutencao
    /\ UNCHANGED <<calc_vars, web_vars>>

reabrir_chamado_restarting_clock(t, id_chamado, remover_historico) ==
    LET resp == SelectSeq(chamados, LAMBDA c : c.id = id_chamado)
    IN  /\ RunsAt(t)
        /\ \/ /\ Len(resp) = 0
              /\ tela' = Msg("Chamado nao encontrado.")
              /\ UNCHANGED <<chamados, historico_manutencao>>
           \/ /\ Len(resp) > 0
              /\ resp[1].hora_fechamento = None
              /\ tela' = Msg("Chamado ja esta em aberto.")
              /\ UNCHANGED <<chamados, historico_manutencao>>
           \/ /\ Len(resp) > 0
              /\ resp[1].hora_fechamento # None
              /\ LET old_hora_fechamento == resp[1].hora_fechamento
                     patrimonio == resp[1].patrimonio
                 IN  /\ chamados' =
                           [i \in DOMAIN chamados |->
                               IF chamados[i].id = id_chamado
                               THEN [chamados[i] EXCEPT
                                        !.hora_abertura = strftime(now_fortaleza(t)),
                                        !.hora_fechamento = None,
                                        !.solucao = None]
                               ELSE chamados[i]]
                     /\ historico_manutencao' =
                           IF remover_historico /\ patrimonio # None
                           THEN SelectSeq(historico_manutencao,
                                    LAMBDA h : ~(/\ h.numero_patrimonio = patrimonio
                                                 /\ h.data_manutencao = old_hora_fechamento))
                           ELSE historico_manutencao
              /\ tela' = MsgId("Chamado reaberto com sucesso!", id_chamado)
        /\ UNCHANGED <<pecas_usadas, n_finalizar>>
        /\ UNCHANGED <<calc_vars, web_vars>>

reabrir_chamado_purging_history_when_open(t, id_chamado, remover_historico) ==
    LET resp == SelectSeq(chamados, LAMBDA c : c.id = id_chamado)
    IN  /\ RunsAt(t)
        /\ \/ /\ Len(resp) = 0
              /\ tela' = Msg("Chamado nao encontrado.")
              /\ UNCHANGED <<chamados, historico_manutencao>>
           \/ /\ Len(resp) > 0
              /\ resp[1].hora_fechamento = None
              /\ tela' = Msg("Chamado ja esta em aberto.")
              /\ historico_manutencao' =
                    IF remover_historico
                    THEN SelectSeq(historico_manutencao,
                             LAMBDA h : h.numero_patrimonio # resp[1].patrimonio)
                    ELSE historico_manutencao
              /\ UNCHANGED chamados
           \/ /\ Len(resp) > 0
              /\ resp[1].hora_fechamento # None
              /\ LET old_hora_fechamento == resp[1].hora_fechamento
                     patrimonio == resp[1].patrimonio
                 IN  /\ chamados' =
                           [i \in DOMAIN chamados |->
                               IF chamados[i].id = id_chamado
                               THEN [chamados[i] EXCEPT
                                        !.hora_fechamento = None,
                                        !.solucao = None]
                               ELSE chamados[i]]
                     /\ historico_manutencao' =
                           IF remover_historico /\ patrimonio # None
                           THEN SelectSeq(historico_manutencao,
                                    LAMBDA h : ~(/\ h.numero_patrimonio = patrimonio
                                                 /\ h.data_manutencao = old_hora_fechamento))
                           ELSE historico_manutencao
              /\ tela' = MsgId("Chamado reaberto com sucesso!", id_chamado)
        /\ UNCHANGED <<pecas_usadas, n_finalizar>>
        /\ UNCHANGED <<calc_vars, web_vars>>

\* reabrir_chamado: nothing for an unknown or open ticket; otherwise clears
\* hora_fechamento and solucao and, on request, deletes the history rows of
\* the patrimonio written at the old close time
reabrir_chamado(t, id_chamado, remover_historico) ==
    LET resp == SelectSeq(chamados, LAMBDA c : c.id = id_chamado)
    IN  /\ RunsAt(t)
        /\ \/ /\ Len(resp) = 0
              /\ tela' = Msg("Chamado nao encontrado.")
              /\ UNCHANGED <<chamados, historico_manutencao>>
           \/ /\ Len(resp) > 0
              /\ resp[1].hora_fechamento = None
              /\ tela' = Msg("Chamado ja esta em aberto.")
              /\ UNCHANGED <<chamados, historico_manutencao>>
           \/ /\ Len(resp) > 0
              /\ resp[1].hora_fechamento # None
              /\ LET old_hora_fechamento == resp[1].hora_fechamento
                     patrimonio == resp[1].patrimonio
                 IN  /\ chamados' =
                           [i \in DOMAIN chamados |->
                               IF chamados[i].id = id_chamado
                               THEN [chamados[i] EXCEPT
                                        !.hora_fechamento = None,
                                        !.solucao = None]
                               ELSE chamados[i]]
                     /\ historico_manutencao' =
                           IF remover_historico /\ patrimonio # None
                           THEN SelectSeq(historico_manutencao,
                                    LAMBDA h : ~(/\ h.numero_patrimonio = patrimonio
                                                 /\ h.data_manutencao = old_hora_fechamento))
                           ELSE historico_manutencao
              /\ tela' = MsgId("Chamado reaberto com sucesso!", id_chamado)
        /\ UNCHANGED <<pecas_usadas, n_finalizar>>
        /\ UNCHANGED <<calc_vars, web_vars>>

\* a row of table chamados written by another client of the datastore (the
\* code reads whatever list_chamados returns and guards every parse): its
\* opening text is missing or in another format, or its closing text is in
\* another format
ExternalRows ==
    {[hora_abertura |-> None,    hora_fechamento |-> None],
     [hora_abertura |-> BadText, hora_fechamento |-> None],
     [hora_abertura |-> [dia |-> 0, H |-> 8, M |-> 0, S |-> 0],
      hora_fechamento |-> BadText]}

linha_externa(t, ext) ==
    /\ RunsAt(t)
    /\ Len(chamados) < MaxChamados
    /\ chamados' = Append(chamados,
                       [id |-> Len(chamados) + 1,
                        hora_abertura |-> ext.hora_abertura,
                        hora_fechamento |-> ext.hora_fechamento,
                        solucao |-> None,
                        protocolo |-> gerar_protocolo_sequencial,
                        patrimonio |-> None,
                        status_chamado |-> None,
                        peca_necessaria |-> None,
                        tecnico_responsavel |-> None])
    /\ tela' = NoPage
    /\ UNCHANGED <<pecas_usadas, historico_manutencao, n_finalizar>>
    /\ UNCHANGED <<calc_vars, web_vars>>

\* Python's (x or None): an empty text becomes None
or_none(x) == IF x = [str |-> ""] THEN None ELSE x

\* atualizar_status_chamado: update of the three status columns
\* ... eq("id", id_chamado); returns True
atualizar_status_chamado(t, id_chamado, status, peca, tecnico) ==
    /\ RunsAt(t)
    /\ chamados' =
          [i \in DOMAIN chamados |->
              IF chamados[i].id = id_chamado
              THEN [chamados[i] EXCEPT
                       !.status_chamado = status,
                       !.peca_necessaria = peca,
                       !.tecnico_responsavel = tecnico]
              ELSE chamados[i]]
    /\ tela' = NoPage
    /\ UNCHANGED <<pecas_usadas, historico_manutencao, n_finalizar>>
    /\ UNCHANGED <<calc_vars, web_vars>>

marcar_aguardando_peca(t, id_chamado, peca, tecnico) ==
    atualizar_status_chamado(t, id_chamado, [str |-> "Aguardando Peca"],
                             or_none(peca), or_none(tecnico))

limpar_status_aguardando(t, id_chamado) ==
    atualizar_status_chamado(t, id_chamado, None, None, None)

\* OS700._update_status_chamado: status_chamado is always in the payload,
\* peca_necessaria and tecnico_responsavel only when they are not None
update_status_chamado(t, id_chamado, status, peca, tecnico) ==
    /\ RunsAt(t)
    /\ chamados' =
          [i \in DOMAIN chamados |->
              IF chamados[i].id = id_chamado
              THEN [chamados[i] EXCEPT
                       !.status_chamado = status,
                       !.peca_necessaria = IF peca # None THEN peca ELSE @,
                       !.tecnico_responsavel = IF tecnico # None THEN tecnico ELSE @]
              ELSE chamados[i]]
    /\ tela' = NoPage
    /\ UNCHANGED <<pecas_usadas, historico_manutencao, n_finalizar>>
    /\ UNCHANGED <<calc_vars, web_vars>>

\* the two buttons of the technicians page: "Marcar Aguardando Peca" with
\* the part chosen (or none) and the technician typed, and "Marcar Em Aberto"
StatusButtons ==
    {<<[str |-> "Aguardando Peca"], None, [str |-> "Ana"]>>,
     <<[str |-> "Aguardando Peca"], [str |-> "Fonte"], [str |-> "Ana"]>>,
     <<None, None, None>>}

(* ------------------------- the aging views ----------------------------- *)

\* the hard-coded overdue threshold of the dashboard and technicians page
OverdueHours == 48

\* round(delta.total_seconds() / 3600.0, 2), in hundredths of an hour
round_hours_2(secs) ==
    LET q == secs \div 36
        r == secs % 36
    IN  IF r > 18 \/ (r = 18 /\ q % 2 = 1) THEN q + 1 ELSE q

maior_que_horas_inclusive(tempo_util, horas) == tempo_util.seconds >= horas * HourSecs

\* tempo_util > timedelta(hours=horas): strictly greater
maior_que_horas(tempo_util, horas) == tempo_util.seconds > horas * HourSecs

\* dashboard_page, the body of its try: the ticket counts as late unless
\* anything in the try raises (except: pass)
dashboard_atrasado(c, agora_local) ==
    /\ parses(c.hora_abertura)
    /\ LET abertura == strptime(c.hora_abertura)
           tempo_util == calculate_working_hours(abertura, agora_local)
       IN  /\ tempo_util.exc = "None"
           /\ maior_que_horas(tempo_util, OverdueHours)

Count(seq, Test(_)) == Len(SelectSeq(seq, Test))

dashboard_page_flagging_rows(t) ==
    /\ RunsAt(t)
    /\ tela' =
          IF Len(chamados) = 0
          THEN Msg("Nenhum chamado registrado.")
          ELSE [page |-> "Dashboard",
                agora |-> t,
                chamados |-> chamados,
                total_chamados |-> Len(chamados),
                abertos |-> Count(chamados, LAMBDA c : c.hora_fechamento = None),
                fechados |-> Count(chamados, LAMBDA c : c.hora_fechamento # None),
                atrasados |-> Count(chamados,
                                 LAMBDA c : /\ c.hora_fechamento = None
                                            /\ dashboard_atrasado(c, now_fortaleza(t)))]
    /\ chamados' = [i \in DOMAIN chamados |->
                       IF chamados[i].hora_fechamento = None
                       THEN [chamados[i] EXCEPT !.status_chamado = [str |-> "Em analise"]]
                       ELSE chamados[i]]
    /\ UNCHANGED <<pecas_usadas, historico_manutencao, n_finalizar>>
    /\ UNCHANGED <<calc_vars, web_vars>>

dashboard_page(t) ==
    /\ RunsAt(t)
    /\ tela' =
          IF Len(chamados) = 0
          THEN Msg("Nenhum chamado registrado.")
          ELSE [page |-> "Dashboard",
                agora |-> t,
                chamados |-> chamados,
                total_chamados |-> Len(chamados),
                abertos |-> Count(chamados, LAMBDA c : c.hora_fechamento = None),
                fechados |-> Count(chamados, LAMBDA c : c.hora_fechamento # None),
                atrasados |-> Count(chamados,
                                 LAMBDA c : /\ c.hora_fechamento = None
                                            /\ dashboard_atrasado(c, now_fortaleza(t)))]
    /\ UNCHANGED <<chamados, pecas_usadas, historico_manutencao, n_finalizar>>
    /\ UNCHANGED <<calc_vars, web_vars>>

\* chamados_tecnicos_page._eh_fechado: pd.notna(v) and
\* str(v).strip().lower() not in ("none", "")
eh_fechado(v) == v # None /\ v \notin {[str |-> ""], [str |-> "None"], [str |-> "none"]}

tecnicos_idade_uteis_h_until_now(row, agora_local) ==
    IF ~parses(row.hora_abertura) THEN None
    ELSE IF eh_fechado(row.hora_fechamento) /\ ~parses(row.hora_fechamento) THEN None
    ELSE
    LET ab == strptime(row.hora_abertura)
        delta == calculate_working_hours(ab, agora_local)
    IN  IF delta.exc = "None" THEN Num(round_hours_2(delta.seconds)) ELSE None

\* chamados_tecnicos_page._idade_uteis_h: any exception gives None
tecnicos_idade_uteis_h(row, agora_local) ==
    IF ~parses(row.hora_abertura) THEN None
    ELSE IF eh_fechado(row.hora_fechamento) /\ ~parses(row.hora_fechamento) THEN None
    ELSE
    LET ab == strptime(row.hora_abertura)
        delta == IF eh_fechado(row.hora_fechamento)
                 THEN calculate_working_hours(ab, strptime(row.hora_fechamento))
                 ELSE calculate_working_hours(ab, agora_local)
    IN  IF delta.exc = "None" THEN Num(round_hours_2(delta.seconds)) ELSE None

\* the column ">48h_uteis"
tecnicos_maior_48h(row, idade) ==
    /\ ~eh_fechado(row.hora_fechamento)
    /\ idade # None
    /\ idade.num > OverdueHours * 100

tempo_util_txt_zero_on_error(row) ==
    IF ~parses(row.hora_abertura) THEN Num(0)
    ELSE IF eh_fechado(row.hora_fechamento)
    THEN IF ~parses(row.hora_fechamento) THEN Num(0)
         ELSE LET ab == strptime(row.hora_abertura)
                  delta == calculate_working_hours(ab, strptime(row.hora_fechamento))
              IN  IF delta.exc = "None" THEN Num(delta.seconds) ELSE Num(0)
    ELSE [str |-> "Em aberto"]

\* chamados_tecnicos_page._tempo_util_txt
tempo_util_txt(row) ==
    IF ~parses(row.hora_abertura) THEN [str |-> "Erro"]
    ELSE IF eh_fechado(row.hora_fechamento)
    THEN IF ~parses(row.hora_fechamento) THEN [str |-> "Erro"]
         ELSE LET ab == strptime(row.hora_abertura)
                  delta == calculate_working_hours(ab, strptime(row.hora_fechamento))
              IN  IF delta.exc = "None" THEN Num(delta.seconds) ELSE [str |-> "Erro"]
    ELSE [str |-> "Em aberto"]

\* list_chamados_em_aberto: hora_fechamento IS NULL
list_chamados_em_aberto == SelectSeq(chamados, LAMBDA c : c.hora_fechamento = None)

tecnicos_linha(row, agora_local) ==
    LET idade == tecnicos_idade_uteis_h(row, agora_local)
    IN  [id |-> row.id,
         protocolo |-> row.protocolo,
         hora_abertura |-> row.hora_abertura,
         hora_fechamento |-> row.hora_fechamento,
         idade_uteis_h |-> idade,
         maior_48h_uteis |-> tecnicos_maior_48h(row, idade),
         tempo_util |-> tempo_util_txt(row)]

chamados_tecnicos_page(t, mostrar, apenas48) ==
    /\ RunsAt(t)
    /\ LET lista == IF mostrar = "Somente em aberto"
                    THEN list_chamados_em_aberto
                    ELSE chamados
           df == [i \in DOMAIN lista |-> tecnicos_linha(lista[i], now_fortaleza(t))]
       IN  tela' =
              IF Len(lista) = 0
              THEN Msg("Nenhum chamado encontrado.")
              ELSE [page |-> "Chamados Tecnicos",
                    agora |-> t,
                    mostrar |-> mostrar,
                    apenas48 |-> apenas48,
                    df |-> IF apenas48
                           THEN SelectSeq(df, LAMBDA r : r.maior_48h_uteis)
                           ELSE df]
    /\ UNCHANGED <<chamados, pecas_usadas, historico_manutencao, n_finalizar>>
    /\ UNCHANGED <<calc_vars, web_vars>>

\* relatorios_page._tempo_uteis_seg
relatorio_tempo_uteis_seg(row) ==
    IF ~parses(row.hora_abertura) THEN NaN
    ELSE IF to_datetime(row.hora_fechamento) # NaT
    THEN LET delta == calculate_working_hours(strptime(row.hora_abertura),
                                              to_datetime(row.hora_fechamento))
         IN  IF delta.exc = "None" THEN Num(delta.seconds) ELSE NaN
    ELSE NaN

\* relatorios_page._idade_uteis_h: any exception gives NaN
relatorio_idade_uteis_h(row, agora_local) ==
    IF ~parses(row.hora_abertura) THEN NaN
    ELSE
    LET ab == strptime(row.hora_abertura)
        fim == IF to_datetime(row.hora_fechamento) # NaT
               THEN to_datetime(row.hora_fechamento)
               ELSE agora_local
        delta == calculate_working_hours(ab, fim)
    IN  IF delta.exc = "None" THEN Num(round_hours_2(delta.seconds)) ELSE NaN

\* a comparison with NaN is False
GreaterThan(x, y) == x # NaN /\ x.num > y

AtMost_strict(x, y) == x # NaN /\ x.num < y

AtMost(x, y) == x # NaN /\ x.num <= y

relatorio_linha(row, agora_local, sla_horas) ==
    LET tempo == relatorio_tempo_uteis_seg(row)
        em_aberto == to_datetime(row.hora_fechamento) = NaT
    IN  [id |-> row.id,
         hora_abertura |-> row.hora_abertura,
         hora_fechamento |-> row.hora_fechamento,
         tempo_uteis_seg |-> tempo,
         idade_uteis_h |-> relatorio_idade_uteis_h(row, agora_local),
         em_aberto |-> em_aberto,
         dentro_sla |-> ~em_aberto /\ AtMost(tempo, sla_horas * HourSecs)]

RECURSIVE GCD(_, _)
GCD(a, b) == IF b = 0 THEN a ELSE GCD(b, a % b)

\* the number a / b (b > 0), in lowest terms
Frac(a, b) == [num |-> a \div GCD(a, b), den |-> b \div GCD(a, b)]

RECURSIVE SumNums(_)
SumNums(seq) == IF Len(seq) = 0 THEN 0 ELSE Head(seq).num + SumNums(Tail(seq))

\* pandas Series.mean(): NaN entries are skipped; NaN when nothing is left
series_mean(seq) ==
    LET v == SelectSeq(seq, LAMBDA x : x # NaN)
    IN  IF Len(v) = 0 THEN NaN ELSE Frac(SumNums(v), Len(v))

relatorio_tma_h_zero_without_closed(df, fechados) ==
    LET dos_fechados == SelectSeq(df, LAMBDA r : ~r.em_aberto)
        m == series_mean([i \in DOMAIN dos_fechados |-> dos_fechados[i].tempo_uteis_seg])
    IN  IF fechados > 0
        THEN IF m = NaN THEN NaN ELSE Frac(m.num, m.den * HourSecs)
        ELSE Frac(0, 1)

\* (mean or 0) / 3600 if fechados > 0 else None; NaN is truthy and stays NaN
relatorio_tma_h(df, fechados) ==
    LET dos_fechados == SelectSeq(df, LAMBDA r : ~r.em_aberto)
        m == series_mean([i \in DOMAIN dos_fechados |-> dos_fechados[i].tempo_uteis_seg])
    IN  IF fechados > 0
        THEN IF m = NaN THEN NaN ELSE Frac(m.num, m.den * HourSecs)
        ELSE None

\* the period "Tudo": abertura_dt from 2000-01-01 to the end of today; a
\* comparison with NaT is False
relatorio_no_periodo(row, t) ==
    /\ to_datetime(row.hora_abertura) # NaT
    /\ to_datetime(row.hora_abertura).t < (t \div DaySecs + 1) * DaySecs

\* relatorios_page with the period "Tudo" and no UBS or sector filter
relatorios_page(t, sla_horas) ==
    /\ RunsAt(t)
    /\ LET filtrados == SelectSeq(chamados, LAMBDA c : relatorio_no_periodo(c, t))
           df == [i \in DOMAIN filtrados |->
                     relatorio_linha(filtrados[i], now_fortaleza(t), sla_horas)]
           total == Len(df)
           abertos == Count(df, LAMBDA r : r.em_aberto)
           fechados == total - abertos
       IN  tela' =
              IF Len(chamados) = 0
              THEN Msg("Nenhum chamado encontrado.")
              ELSE IF Len(df) = 0
              THEN Msg("Sem dados para os filtros selecionados.")
              ELSE [page |-> "Relatorios",
                    agora |-> t,
                    sla_horas |-> sla_horas,
                    df |-> df,
                    total |-> total,
                    abertos |-> abertos,
                    fechados |-> fechados,
                    tma_h |-> relatorio_tma_h(df, fechados),
                    dentro_sla |-> Count(df, LAMBDA r : r.dentro_sla),
                    backlog_sla |-> Count(df,
                        LAMBDA r : /\ r.em_aberto
                                   /\ GreaterThan(r.idade_uteis_h, sla_horas * 100))]
    /\ UNCHANGED <<chamados, pecas_usadas, historico_manutencao, n_finalizar>>
    /\ UNCHANGED <<calc_vars, web_vars>>

\* ai_nlq_ai._calc_horas_uteis: calculate_working_hours, else wall-clock
\* hours fim_dt - ab, else NaN
calc_horas_uteis(abertura_str, fim_dt) ==
    IF ~parses(abertura_str) THEN NaN
    ELSE
    LET ab == strptime(abertura_str)
        delta == calculate_working_hours(ab, fim_dt)
    IN  IF delta.exc = "None" THEN Num(round_hours_2(delta.seconds))
        ELSE IF comparable(fim_dt, ab) THEN Num(round_hours_2(fim_dt.t - ab.t))
        ELSE NaN

\* ai_nlq_ai._prepare_df: em_aberto = fechamento_dt.isna()
nlq_em_aberto(row) == to_datetime(row.hora_fechamento) = NaT

\* answer_question, intent open_over_hours
answer_open_over_hours(t, hours) ==
    /\ RunsAt(t)
    /\ LET now_local == now_fortaleza(t)
           df_op == SelectSeq(chamados, nlq_em_aberto)
           com_idade == [i \in DOMAIN df_op |->
                            [id |-> df_op[i].id,
                             protocolo |-> df_op[i].protocolo,
                             hora_abertura |-> df_op[i].hora_abertura,
                             hora_fechamento |-> df_op[i].hora_fechamento,
                             idade_uteis_h |->
                                 calc_horas_uteis(df_op[i].hora_abertura, now_local)]]
       IN  tela' =
              IF Len(chamados) = 0 THEN Msg("Sem dados de chamados.")
              ELSE IF Len(df_op) = 0 THEN Msg("Nenhum chamado em aberto.")
              ELSE [page |-> "Pergunte com IA",
                    intent |-> "open_over_hours",
                    agora |-> t,
                    hours |-> hours,
                    df_op |-> com_idade,
                    res |-> SelectSeq(com_idade,
                               LAMBDA r : GreaterThan(r.idade_uteis_h, hours * 100))]
    /\ UNCHANGED <<chamados, pecas_usadas, historico_manutencao, n_finalizar>>
    /\ UNCHANGED <<calc_vars, web_vars>>

\* round(num / den, 0) to the nearest integer, an exact tie to the even one
round_div(num, den) ==
    LET q == num \div den
        r == num % den
    IN  IF 2 * r > den \/ (2 * r = den /\ q % 2 = 1) THEN q + 1 ELSE q

nlq_t_resolucao_seg_zero_on_error(row) ==
    IF parses(row.hora_abertura) /\ parses(row.hora_fechamento)
    THEN LET delta == calculate_working_hours(strptime(row.hora_abertura),
                                              strptime(row.hora_fechamento))
         IN  IF delta.exc = "None" THEN Num(delta.seconds) ELSE Num(0)
    ELSE Num(0)

\* answer_question, intent avg_resolution, the row function _t
nlq_t_resolucao_seg(row) ==
    IF parses(row.hora_abertura) /\ parses(row.hora_fechamento)
    THEN LET delta == calculate_working_hours(strptime(row.hora_abertura),
                                              strptime(row.hora_fechamento))
         IN  IF delta.exc = "None" THEN Num(delta.seconds) ELSE NaN
    ELSE NaN

\* answer_question, intent avg_resolution: round(v.mean() / 3600.0, 1), in
\* tenths of an hour
answer_avg_resolution(t) ==
    /\ RunsAt(t)
    /\ LET fechados == SelectSeq(chamados, LAMBDA c : ~nlq_em_aberto(c))
           t_resolucao_seg == [i \in DOMAIN fechados |-> nlq_t_resolucao_seg(fechados[i])]
           v == SelectSeq(t_resolucao_seg, LAMBDA x : x # NaN)
       IN  tela' =
              IF Len(chamados) = 0 THEN Msg("Sem dados de chamados.")
              ELSE IF Len(fechados) = 0 THEN Msg("Nenhum chamado fechado no filtro.")
              ELSE IF Len(v) = 0 THEN Msg("Nao foi possivel calcular.")
              ELSE [page |-> "Pergunte com IA",
                    intent |-> "avg_resolution",
                    agora |-> t,
                    horas |-> Num(round_div(SumNums(v), Len(v) * 360))]
    /\ UNCHANGED <<chamados, pecas_usadas, historico_manutencao, n_finalizar>>
    /\ UNCHANGED <<calc_vars, web_vars>>

\* empty tables, nothing rendered; the calculator's own call record is at
\* rest while the application runs
AppInit ==
    /\ chamados = <<>>
    /\ pecas_usadas = <<>>
    /\ historico_manutencao = <<>>
    /\ agora = At(0, 16)
    /\ tela = NoPage
    /\ n_finalizar = 0
    /\ pendentes = [w \in Workers |-> NoCall]
    /\ session_state = session_state_init
    /\ start = naive(0)
    /\ end = naive(0)
    /\ pc = "idle"
    /\ current = naive(0)
    /\ total_seconds = 0
    /\ result = NoResult
    /\ iters = 0

AppNext ==
    \/ \E t \in ClockTimes, patrimonio \in Patrimonios : add_chamado(t, patrimonio, NoTwilioSettings)
    \/ \E t \in ClockTimes, id_chamado \in 1..MaxChamados, pecas \in PecasChoices :
           finalizar_chamado(t, id_chamado, [str |-> "Reset da BIOS"], pecas)
    \/ \E t \in ClockTimes, id_chamado \in 1..MaxChamados, remover_historico \in BOOLEAN :
           reabrir_chamado(t, id_chamado, remover_historico)
    \/ \E t \in ClockTimes : dashboard_page(t)
    \/ \E t \in ClockTimes, mostrar \in {"Todos", "Somente em aberto"}, apenas48 \in BOOLEAN :
           chamados_tecnicos_page(t, mostrar, apenas48)
    \/ \E t \in ClockTimes, sla_horas \in HoursChoices : relatorios_page(t, sla_horas)
    \/ \E t \in ClockTimes, hours \in HoursChoices : answer_open_over_hours(t, hours)

AppSpec == AppInit /\ [][AppNext]_vars

\* the instants at which the pages are used: Monday 08:00, then Thursday
\* 08:00 (24 business hours later) and 09:00 (25)
ViewClockTimes == {At(0, 16), At(3, 16), At(3, 18)}

\* the pages and answers over a table that also holds rows with missing or
\* unparsable timestamps; tickets without patrimonio, closed without parts
ViewNext ==
    \/ \E t \in ViewClockTimes : add_chamado(t, None, NoTwilioSettings)
    \/ \E t \in ViewClockTimes, ext \in ExternalRows : linha_externa(t, ext)
    \/ \E t \in ViewClockTimes, id_chamado \in 1..MaxChamados :
           finalizar_chamado(t, id_chamado, [str |-> "Reset da BIOS"], <<>>)
    \/ \E t \in ViewClockTimes : dashboard_page(t)
    \/ \E t \in ViewClockTimes, mostrar \in {"Todos", "Somente em aberto"} :
           chamados_tecnicos_page(t, mostrar, FALSE)
    \/ \E t \in ViewClockTimes, sla_horas \in HoursChoices : relatorios_page(t, sla_horas)
    \/ \E t \in ViewClockTimes, hours \in HoursChoices : answer_open_over_hours(t, hours)
    \/ \E t \in ViewClockTimes : answer_avg_resolution(t)

ViewSpec == AppInit /\ [][ViewNext]_vars

\* the calls that write table chamados, in every order; every ticket has a
\* patrimonio, so every closure writes a maintenance record that a reopen
\* may delete
LifecycleNext ==
    \/ \E t \in ClockTimes : add_chamado(t, [str |-> "PAT-1"], NoTwilioSettings)
    \/ \E t \in ClockTimes, etapa \in AddFailures : add_chamado_erro(t, etapa)
    \/ \E t \in ClockTimes, id_chamado \in 1..MaxChamados :
           finalizar_chamado(t, id_chamado, [str |-> "Reset da BIOS"], <<>>)
    \/ \E t \in ClockTimes, id_chamado \in 1..MaxChamados, remover_historico \in BOOLEAN :
           reabrir_chamado(t, id_chamado, remover_historico)
    \/ \E t \in ClockTimes, id_chamado \in 1..MaxChamados, peca \in PecaTexts :
           marcar_aguardando_peca(t, id_chamado, peca, [str |-> "Ana"])
    \/ \E t \in ClockTimes, id_chamado \in 1..MaxChamados :
           limpar_status_aguardando(t, id_chamado)

LifecycleSpec == AppInit /\ [][LifecycleNext]_vars

(* ----------------------- session and navigation ------------------------ *)

\* autenticacao.authenticate and autenticacao.is_admin: a username/password
\* check against the stored users, and the admin flag of a user
Credentials == {<<"admin", "segredo">>, <<"ana", "segredo">>}

Admins == {"admin"}

authenticate(username, password) == <<username, password>> \in Credentials

is_admin(username) == username \in Admins

\* what can be typed into the login form
Usernames == {"", "admin", "ana"}

Passwords == {"", "segredo", "errada"}

\* list.insert(i, x), i counted from 0
insert(seq, i, x) == SubSeq(seq, 1, i) \o <<x>> \o SubSeq(seq, i + 1, Len(seq))

navbar_items_admin_for_all ==
    IF session_state.logged_in
    THEN LET items == <<"Pergunte com IA", "Abrir Chamado", "Buscar Chamado",
                        "Chamados Tecnicos", "Inventario", "Relatorios",
                        "Exportar Dados", "Sair">>
         IN  insert(insert(insert(items, 1, "Dashboard"), 5, "Estoque"),
                    6, "Administracao")
    ELSE <<"Login">>

\* _navbar_items: the labels of the menu for the current session
navbar_items ==
    IF session_state.logged_in
    THEN LET items == <<"Pergunte com IA", "Abrir Chamado", "Buscar Chamado",
                        "Chamados Tecnicos", "Inventario", "Relatorios",
                        "Exportar Dados", "Sair">>
         IN  IF is_admin(session_state.username)
             THEN insert(insert(insert(items, 1, "Dashboard"), 5, "Estoque"),
                         6, "Administracao")
             ELSE items
    ELSE <<"Login">>

\* _navbar_render: option_menu returns one of the options it was given
navbar_render(selected) == \E i \in DOMAIN navbar_items : navbar_items[i] = selected

\* st.success / st.error inside a page of the menu
PageMsg(label, text) == [page |-> label, texto |-> text]

\* a script run routed to login_page: the form as typed, submitted with
\* "Entrar" or not; on success the session is set and the script reruns
login_page(t, username, password, entrar) ==
    /\ RunsAt(t)
    /\ navbar_render("Login")
    /\ IF ~entrar
       THEN /\ tela' = PageMsg("Login", "")
            /\ UNCHANGED session_state
       ELSE IF username = "" \/ password = ""
       THEN /\ tela' = PageMsg("Login", "Preencha todos os campos.")
            /\ UNCHANGED session_state
       ELSE IF authenticate(username, password)
       THEN /\ tela' = PageMsg("Login", "Bem-vindo!")
            /\ session_state' = [logged_in |-> TRUE, username |-> username]
       ELSE /\ tela' = PageMsg("Login", "Usuario ou senha incorretos.")
            /\ UNCHANGED session_state
    /\ UNCHANGED <<chamados, pecas_usadas, historico_manutencao, n_finalizar>>
    /\ UNCHANGED <<calc_vars, pendentes>>

\* a script run routed to sair_page
sair_page(t) ==
    /\ RunsAt(t)
    /\ navbar_render("Sair")
    /\ session_state' = [logged_in |-> FALSE, username |-> ""]
    /\ tela' = PageMsg("Sair", "Voce saiu.")
    /\ UNCHANGED <<chamados, pecas_usadas, historico_manutencao, n_finalizar>>
    /\ UNCHANGED <<calc_vars, pendentes>>

\* the pages whose content is not modelled: they read and write neither
\* st.session_state nor table chamados
OtherPages == {"Buscar Chamado", "Inventario", "Estoque", "Administracao",
               "Exportar Dados"}

outra_pagina(t, label) ==
    /\ RunsAt(t)
    /\ navbar_render(label)
    /\ tela' = PageMsg(label, "")
    /\ UNCHANGED <<chamados, pecas_usadas, historico_manutencao, n_finalizar>>
    /\ UNCHANGED <<calc_vars, web_vars>>

\* label_to_func.get(selected_label, login_page)(): one script run per step,
\* routed to the page selected in the menu of the current session
SessionNext ==
    \/ \E t \in ClockTimes, username \in Usernames, password \in Passwords,
          entrar \in BOOLEAN : login_page(t, username, password, entrar)
    \/ \E t \in ClockTimes : sair_page(t)
    \/ \E t \in ClockTimes, label \in OtherPages : outra_pagina(t, label)
    \/ \E t \in ClockTimes : navbar_render("Dashboard") /\ dashboard_page(t)
    \/ \E t \in ClockTimes :
          /\ navbar_render("Abrir Chamado")
          /\ add_chamado(t, [str |-> "PAT-1"], NoTwilioSettings)
    \/ \E t \in ClockTimes :
          /\ navbar_render("Chamados Tecnicos")
          /\ chamados_tecnicos_page(t, "Todos", FALSE)
    \/ \E t \in ClockTimes :
          /\ navbar_render("Relatorios")
          /\ relatorios_page(t, OverdueHours)
    \/ \E t \in ClockTimes : navbar_render("Pergunte com IA") /\ answer_avg_resolution(t)

SessionSpec == AppInit /\ [][SessionNext]_vars

\* tickets opened with every outcome of the WhatsApp notification, and closed
NotifyNext ==
    \/ \E t \in ClockTimes, patrimonio \in Patrimonios, twilio \in TwilioOutcomes :
           add_chamado(t, patrimonio, twilio)
    \/ \E t \in ClockTimes, etapa \in AddFailures : add_chamado_erro(t, etapa)
    \/ \E t \in ClockTimes, id_chamado \in 1..MaxChamados :
           finalizar_chamado(t, id_chamado, [str |-> "Reset da BIOS"], <<>>)

NotifySpec == AppInit /\ [][NotifyNext]_vars

\* every call that writes table chamados, the status buttons of the
\* technicians page included, in every order, with the datastore failing
\* inside finalizar_chamado
OperationsNext ==
    \/ \E t \in ClockTimes : add_chamado(t, [str |-> "PAT-1"], NoTwilioSettings)
    \/ \E t \in ClockTimes, id_chamado \in 1..MaxChamados :
           finalizar_chamado(t, id_chamado, [str |-> "Reset da BIOS"], <<>>)
    \/ \E t \in ClockTimes, id_chamado \in 1..MaxChamados,
          pecas \in PecasChoices, etapa \in FinalizarFailures :
           finalizar_chamado_erro(t, id_chamado, [str |-> "Reset da BIOS"], pecas, etapa)
    \/ \E t \in ClockTimes, id_chamado \in 1..MaxChamados, remover_historico \in BOOLEAN :
           reabrir_chamado(t, id_chamado, remover_historico)
    \/ \E t \in ClockTimes, id_chamado \in 1..MaxChamados, peca \in PecaTexts :
           marcar_aguardando_peca(t, id_chamado, peca, [str |-> "Ana"])
    \/ \E t \in ClockTimes, id_chamado \in 1..MaxChamados :
           limpar_status_aguardando(t, id_chamado)
    \/ \E t \in ClockTimes, id_chamado \in 1..MaxChamados, b \in StatusButtons :
           update_status_chamado(t, id_chamado, b[1], b[2], b[3])

OperationsSpec == AppInit /\ [][OperationsNext]_vars

\* tickets opened from several threads at once, closed and reopened in
\* between
ConcurrentNext ==
    \/ \E w \in Workers, t \in ClockTimes : add_chamado_gera_protocolo(w, t)
    \/ \E w \in Workers, t \in ClockTimes, patrimonio \in Patrimonios :
           add_chamado_insere(w, t, patrimonio)
    \/ \E t \in ClockTimes, id_chamado \in 1..MaxChamados :
           finalizar_chamado(t, id_chamado, [str |-> "Reset da BIOS"], <<>>)

ConcurrentSpec == AppInit /\ [][ConcurrentNext]_vars

(* ------------------- properties of the calculator ---------------------- *)

\* the spec's TimePoint: both endpoints are naive civil date-times
NaiveInputs == ~start.aware /\ ~end.aware

Finished == pc = "done"

\* length of the intersection of [a, b] and [c, d]
Overlap(a, b, c, d) == Max(0, Min(b, d) - Max(a, c))

\* business seconds of [s, e] inside the two shifts of the day of s
ShiftOverlap(s, e) ==
    LET day0 == date(s) * DaySecs
    IN  Overlap(s.t, e.t, day0 + 8 * HourSecs, day0 + 12 * HourSecs)
        + Overlap(s.t, e.t, day0 + 13 * HourSecs, day0 + 17 * HourSecs)

SameWeekday == date(start) = date(end) /\ weekday(start) < 5

InsideOneShift ==
    LET day0 == date(start) * DaySecs
    IN  \/ day0 + 8 * HourSecs <= start.t /\ end.t <= day0 + 12 * HourSecs
        \/ day0 + 13 * HourSecs <= start.t /\ end.t <= day0 + 17 * HourSecs

\* C1: for start < end on the same Monday-to-Friday day the result is the
\* overlap of [start, end] with the shifts 08:00-12:00 and 13:00-17:00 of
\* that day: end - start inside one shift, 30 minutes for 12:30 -> 13:30
\* and 8 hours for 06:00 -> 20:00.
C1_SameDayOverlap ==
    (Finished /\ NaiveInputs /\ start.t < end.t /\ SameWeekday) =>
        /\ result = Returned(ShiftOverlap(start, end))
        /\ InsideOneShift => result.seconds = end.t - start.t
        /\ (start.t % DaySecs = 25 * 1800 /\ end.t % DaySecs = 27 * 1800)
               => result.seconds = 1800
        /\ (start.t % DaySecs = 6 * HourSecs /\ end.t % DaySecs = 20 * HourSecs)
               => result.seconds = 8 * HourSecs

C1_Witness ==
    /\ Finished /\ NaiveInputs
    /\ start.t = At(0, 25) /\ end.t = At(0, 27)
    /\ result = Returned(1800)

SameWeekend ==
    /\ weekday(start) >= 5 /\ weekday(end) >= 5
    /\ date(start) \div 7 = date(end) \div 7

\* C2: Saturday and Sunday contribute nothing: the result is 0 when start
\* and end lie in the same weekend, and Friday 16:30 -> Monday 09:00 gives
\* 1h30.
C2_WeekendZero ==
    (Finished /\ NaiveInputs) =>
        /\ SameWeekend => result = Returned(0)
        /\ (start.t = At(4, 33) /\ end.t = At(7, 18)) => result = Returned(5400)

C2_Witness ==
    /\ Finished /\ NaiveInputs
    /\ start.t = At(4, 33) /\ end.t = At(7, 18)
    /\ iters = 4
    /\ result = Returned(5400)

\* C3: additivity: for start < mid < end the result for (start, end) is the
\* sum of the results for (start, mid) and (mid, end).
C3_Additivity ==
    (Finished /\ NaiveInputs /\ start.t < end.t) =>
        \A mid \in GridTimes :
            (start.t < mid /\ mid < end.t) =>
                LET left  == calculate_working_hours(start, naive(mid))
                    right == calculate_working_hours(naive(mid), end)
                IN  /\ left.exc = "None" /\ right.exc = "None"
                    /\ result.seconds = left.seconds + right.seconds

\* a split inside a shift with business time on both sides of it
C3_Witness ==
    /\ Finished /\ NaiveInputs
    /\ start.t = At(0, 16) /\ end.t = At(8, 34)
    /\ calculate_working_hours(start, naive(At(1, 18))).seconds = 9 * HourSecs
    /\ calculate_working_hours(naive(At(1, 18)), end).seconds = 47 * HourSecs
    /\ result = Returned(56 * HourSecs)

WeeksApart(k) == end.t = start.t + 7 * k * DaySecs

\* C4: a span of exactly 7k days (k >= 1) holds exactly 40k business hours,
\* whatever weekday or time of day it starts on.
C4_WholeWeeks ==
    (Finished /\ NaiveInputs) =>
        \A k \in 1..MaxWeeks :
            WeeksApart(k) => result = Returned(40 * k * HourSecs)

C4_Witness ==
    /\ Finished /\ NaiveInputs
    /\ start.t = At(5, 12) /\ WeeksApart(2)
    /\ result = Returned(80 * HourSecs)

\* C5: for start >= end (both naive, or both aware) the function returns a
\* zero duration without raising, and no returned duration is negative.
C5_ZeroWhenInverted ==
    /\ (pc # "call" /\ comparable(start, end) /\ start.t >= end.t) =>
           pc = "done" /\ result = Returned(0)
    /\ Finished => result.exc = "None" /\ result.seconds >= 0

C5_Witness ==
    /\ Finished /\ NaiveInputs
    /\ start.t = At(3, 34) /\ end.t = At(1, 16)
    /\ result = Returned(0)

\* C6: business time never exceeds wall-clock time: for start < end the
\* result is at most end - start.
C6_UpperBound ==
    (Finished /\ NaiveInputs /\ start.t < end.t) =>
        result.seconds <= end.t - start.t

\* the bound is reached by a span inside one shift that began at its opening
C6_Witness ==
    /\ Finished /\ NaiveInputs
    /\ start.t = At(2, 16) /\ end.t = At(2, 22)
    /\ result.seconds = end.t - start.t

\* C7: monotonicity: moving end forward or start backward never decreases
\* the result.
C7_Monotone ==
    (Finished /\ NaiveInputs) =>
        /\ \A e2 \in GridTimes :
               e2 >= end.t =>
                   calculate_working_hours(start, naive(e2)).seconds >= result.seconds
        /\ \A s2 \in GridTimes :
               s2 <= start.t =>
                   calculate_working_hours(naive(s2), end).seconds >= result.seconds

C7_Witness ==
    /\ Finished /\ NaiveInputs
    /\ start.t = At(0, 33) /\ end.t = At(1, 18)
    /\ result = Returned(5400)
    /\ calculate_working_hours(start, naive(At(1, 33))).seconds > result.seconds
    /\ calculate_working_hours(naive(At(0, 16)), end).seconds > result.seconds

\* C8: calculate_working_hours raises no exception for any well-formed pair
\* of date-times, in particular for the pairs its callers pass: a naive
\* opening time parsed with strptime as start and the aware
\* datetime.now(FORTALEZA_TZ) as end.
C8_NoExceptionForCallerPairs ==
    (~start.aware /\ end.aware) => result.exc # "TypeError"

(* ------------------- properties of the aging views --------------------- *)

\* the business-hours age of a ticket at wall-clock time t, both endpoints
\* taken as civil times of the same zone
BusinessAge(c, t) ==
    calculate_working_hours(strptime(c.hora_abertura), naive(t)).seconds

\* open, and older than the threshold in business hours
IsOverdue(c, t, hours) ==
    /\ c.hora_fechamento = None
    /\ BusinessAge(c, t) > hours * HourSecs

Ids(rows) == {rows[i].id : i \in DOMAIN rows}

\* C9: a ticket is reported overdue (dashboard count 'atrasados', column
\* '>48h_uteis' of the technicians page, rows listed by the NLQ intent
\* open_over_hours, SLA backlog of the report) if and only if it is open and
\* its business-hours age from opening to now is strictly greater than the
\* threshold.
C9_OverdueIffOpenAndOld ==
    /\ tela.page = "Dashboard" =>
           tela.atrasados =
               Count(tela.chamados, LAMBDA c : IsOverdue(c, tela.agora, OverdueHours))
    /\ tela.page = "Chamados Tecnicos" =>
           \A i \in DOMAIN tela.df :
               tela.df[i].maior_48h_uteis <=>
                   IsOverdue(tela.df[i], tela.agora, OverdueHours)
    /\ tela.page = "Pergunte com IA" =>
           Ids(tela.res) =
               Ids(SelectSeq(tela.df_op,
                             LAMBDA r : IsOverdue(r, tela.agora, tela.hours)))
    /\ tela.page = "Relatorios" =>
           tela.backlog_sla =
               Count(tela.df, LAMBDA r : IsOverdue(r, tela.agora, tela.sla_horas))

\* C10: for every open ticket the age the application computes
\* (idade_uteis_h of the technicians page, of the report and of NLQ) is the
\* business-hours duration from its opening to now, a defined number and
\* not None or NaN.
C10_OpenAgeIsBusinessHours ==
    /\ tela.page \in {"Chamados Tecnicos", "Relatorios"} =>
           \A i \in DOMAIN tela.df :
               tela.df[i].hora_fechamento = None =>
                   tela.df[i].idade_uteis_h =
                       Num(round_hours_2(BusinessAge(tela.df[i], tela.agora)))
    /\ tela.page = "Pergunte com IA" =>
           \A i \in DOMAIN tela.df_op :
               tela.df_op[i].idade_uteis_h =
                   Num(round_hours_2(BusinessAge(tela.df_op[i], tela.agora)))

(* ------------------ properties of closed tickets ----------------------- *)

\* both timestamps of the row are texts in the stored format
Resolved(c) == parses(c.hora_abertura) /\ parses(c.hora_fechamento)

\* the business-hours duration from opening to closure
ClosedSpan(c) ==
    calculate_working_hours(strptime(c.hora_abertura),
                            strptime(c.hora_fechamento)).seconds

\* C11: the age shown for a closed ticket (idade_uteis_h and Tempo Util of
\* the technicians page, idade_uteis_h and tempo_uteis_seg of the report) is
\* the business-hours duration from its opening to its closure, whatever
\* the time 'now' at which the page is rendered.
C11_AgeFrozenAtClosure ==
    /\ tela.page = "Chamados Tecnicos" =>
           \A i \in DOMAIN tela.df :
               Resolved(tela.df[i]) =>
                   /\ tela.df[i].idade_uteis_h = Num(round_hours_2(ClosedSpan(tela.df[i])))
                   /\ tela.df[i].tempo_util = Num(ClosedSpan(tela.df[i]))
    /\ tela.page = "Relatorios" =>
           \A i \in DOMAIN tela.df :
               Resolved(tela.df[i]) =>
                   /\ tela.df[i].idade_uteis_h = Num(round_hours_2(ClosedSpan(tela.df[i])))
                   /\ tela.df[i].tempo_uteis_seg = Num(ClosedSpan(tela.df[i]))

\* a ticket opened Monday 08:00 and closed Thursday 08:00 shows 24 hours on
\* a page rendered one hour after the closure
C11_Witness ==
    /\ tela.page = "Chamados Tecnicos"
    /\ tela.agora = At(3, 18)
    /\ \E i \in DOMAIN tela.df :
           /\ tela.df[i].hora_abertura = strftime(naive(At(0, 16)))
           /\ tela.df[i].hora_fechamento = strftime(naive(At(3, 16)))
           /\ tela.df[i].idade_uteis_h = Num(2400)

\* C12 as written: from Monday 08:00 to Wednesday 08:00 of the same week
\* the business-hours age is exactly 24 hours, and with a threshold of 24
\* hours the ticket is not overdue.
C12_MondayToWednesdayIs24h ==
    (Finished /\ NaiveInputs /\ start.t = At(0, 16) /\ end.t = At(2, 16)) =>
        /\ result = Returned(24 * HourSecs)
        /\ ~maior_que_horas(result, 24)

\* C12 amended: from Monday 08:00 to Wednesday 08:00 the age is exactly 16
\* hours (Monday and Tuesday, 8 hours each); exactly 24 hours is reached on
\* Thursday 08:00, where a threshold of 24 hours is not exceeded because the
\* comparison is strictly greater; one hour later it is exceeded.
C12_StrictBoundary ==
    (Finished /\ NaiveInputs /\ start.t = At(0, 16)) =>
        /\ end.t = At(2, 16) =>
               result = Returned(16 * HourSecs) /\ ~maior_que_horas(result, 24)
        /\ end.t = At(3, 16) =>
               result = Returned(24 * HourSecs) /\ ~maior_que_horas(result, 24)
        /\ end.t = At(3, 18) =>
               result = Returned(25 * HourSecs) /\ maior_que_horas(result, 24)

C12_Witness ==
    /\ Finished /\ NaiveInputs
    /\ start.t = At(0, 16) /\ end.t = At(3, 16)
    /\ result = Returned(24 * HourSecs)

\* the closed rows of the rendered report that are within the SLA
WithinSla(df, sla_horas) ==
    {i \in DOMAIN df : /\ Resolved(df[i])
                       /\ ClosedSpan(df[i]) <= sla_horas * HourSecs}

\* C13: in the report a ticket counts as within SLA if and only if it is
\* closed and its business-hours duration from opening to closure is at
\* most sla_horas hours (a duration equal to the SLA meets it); an open
\* ticket is never within SLA.
C13_SlaInclusiveClosedOnly ==
    tela.page = "Relatorios" =>
        /\ \A i \in DOMAIN tela.df :
               /\ tela.df[i].dentro_sla <=> i \in WithinSla(tela.df, tela.sla_horas)
               /\ tela.df[i].hora_fechamento = None => ~tela.df[i].dentro_sla
        /\ tela.dentro_sla = Cardinality(WithinSla(tela.df, tela.sla_horas))

\* a ticket closed after exactly 24 business hours, SLA of 24 hours, next
\* to an open ticket
C13_Witness ==
    /\ tela.page = "Relatorios"
    /\ tela.sla_horas = 24
    /\ \E i \in DOMAIN tela.df :
           /\ tela.df[i].tempo_uteis_seg = Num(24 * HourSecs)
           /\ tela.df[i].dentro_sla
    /\ \E i \in DOMAIN tela.df : tela.df[i].hora_fechamento = None

(* --------------------- properties of the averages ---------------------- *)

\* the stored tickets that are closed with a computable duration
ResolvedIds == {i \in DOMAIN chamados : Resolved(chamados[i])}

RECURSIVE SumSpans(_)
SumSpans(S) ==
    IF S = {} THEN 0
    ELSE LET i == CHOOSE j \in S : TRUE
         IN  ClosedSpan(chamados[i]) + SumSpans(S \ {i})

\* C14: the average resolution time of the report (TMA, in hours) and of the
\* NLQ intent avg_resolution (hours rounded to one decimal) is the sum of
\* the opening-to-closure business durations of the closed tickets with a
\* computable duration, divided by their number; open tickets and tickets
\* whose timestamps do not parse count in neither; the order of the tickets
\* does not matter (2 h and 4 h average to 3 h).
C14_AverageOverResolved ==
    /\ (tela.page = "Relatorios" /\ ResolvedIds # {}) =>
           tela.tma_h = Frac(SumSpans(ResolvedIds),
                             Cardinality(ResolvedIds) * HourSecs)
    /\ (tela.page = "Pergunte com IA" /\ tela.intent = "avg_resolution") =>
           /\ ResolvedIds # {}
           /\ tela.horas = Num(round_div(SumSpans(ResolvedIds),
                                         Cardinality(ResolvedIds) * 360))
    /\ series_mean(<<Num(2 * HourSecs), Num(4 * HourSecs)>>) = Frac(3 * HourSecs, 1)
    /\ series_mean(<<Num(4 * HourSecs), NaN, Num(2 * HourSecs)>>) = Frac(3 * HourSecs, 1)

\* two stored tickets, one closed after 24 business hours and one closed
\* with an unparsable opening text: the answer is 24.0 hours
C14_Witness ==
    /\ tela.page = "Pergunte com IA" /\ tela.intent = "avg_resolution"
    /\ Len(chamados) = 2
    /\ Cardinality(ResolvedIds) = 1
    /\ \E i \in DOMAIN chamados :
           chamados[i].hora_abertura = BadText /\ parses(chamados[i].hora_fechamento)
    /\ tela.horas = Num(240)

\* C15: when no closed ticket has a computable duration, the report shows
\* no TMA (None, rendered as a dash) and the NLQ intent avg_resolution
\* answers with a message, never with a number (zero included); this
\* covers closed tickets none of which has a computable duration.
C15_NoAverageWithoutResolved ==
    /\ tela.page = "Relatorios" =>
           /\ tela.tma_h = None <=> ResolvedIds = {}
           /\ tela.tma_h # NaN
    /\ (tela.page = "Pergunte com IA" /\ tela.intent = "avg_resolution") =>
           ResolvedIds # {}
    /\ (tela = Msg("Nenhum chamado fechado no filtro.")
           \/ tela = Msg("Nao foi possivel calcular.")) => ResolvedIds = {}

\* a ticket with an unparsable opening text has been closed
C15_Witness ==
    /\ tela = Msg("Nao foi possivel calcular.")
    /\ \E i \in DOMAIN chamados : parses(chamados[i].hora_fechamento)

(* --------------- properties of rows that do not parse ------------------ *)

\* a timestamp of the row is missing or unparsable
BadRow(c) ==
    \/ ~parses(c.hora_abertura)
    \/ c.hora_fechamento # None /\ ~parses(c.hora_fechamento)

CountIds(P(_)) == Cardinality({i \in DOMAIN chamados : P(chamados[i])})

\* C16: with a ticket whose timestamp is missing or unparsable in the
\* table, every page is still rendered over all the tickets: the bad ticket
\* shows None / 'Erro' / NaN and is left out of the counts and averages,
\* and the other tickets keep their values.
C16_BadRowDoesNotAbort ==
    /\ tela.page = "Dashboard" =>
           /\ tela.total_chamados = Len(chamados)
           /\ tela.abertos + tela.fechados = Len(chamados)
           /\ tela.atrasados <=
                  CountIds(LAMBDA c : c.hora_fechamento = None /\ ~BadRow(c))
    /\ (tela.page = "Chamados Tecnicos" /\ ~tela.apenas48) =>
           /\ tela.mostrar = "Todos" => Len(tela.df) = Len(chamados)
           /\ \A i \in DOMAIN tela.df :
                  /\ BadRow(tela.df[i]) =>
                         /\ tela.df[i].idade_uteis_h = None
                         /\ tela.df[i].tempo_util = [str |-> "Erro"]
                         /\ ~tela.df[i].maior_48h_uteis
                  /\ Resolved(tela.df[i]) =>
                         tela.df[i].tempo_util = Num(ClosedSpan(tela.df[i]))
    /\ tela.page = "Relatorios" =>
           /\ tela.total = CountIds(LAMBDA c : parses(c.hora_abertura))
           /\ \A i \in DOMAIN tela.df :
                  /\ BadRow(tela.df[i]) =>
                         /\ tela.df[i].tempo_uteis_seg = NaN
                         /\ ~tela.df[i].dentro_sla
                  /\ Resolved(tela.df[i]) =>
                         tela.df[i].tempo_uteis_seg = Num(ClosedSpan(tela.df[i]))
    /\ (tela.page = "Pergunte com IA" /\ tela.intent = "open_over_hours") =>
           /\ Len(tela.df_op) = CountIds(LAMBDA c : ~parses(c.hora_fechamento))
           /\ \A i \in DOMAIN tela.df_op :
                  ~parses(tela.df_op[i].hora_abertura) =>
                      /\ tela.df_op[i].idade_uteis_h = NaN
                      /\ tela.df_op[i].id \notin Ids(tela.res)

\* the technicians page lists a ticket with an unparsable timestamp as
\* 'Erro' next to a closed ticket with its 24 hours
C16_Witness ==
    /\ tela.page = "Chamados Tecnicos" /\ ~tela.apenas48
    /\ \E i, j \in DOMAIN tela.df :
           /\ BadRow(tela.df[i])
           /\ tela.df[i].tempo_util = [str |-> "Erro"]
           /\ tela.df[j].tempo_util = Num(24 * HourSecs)

(* ------------------------- frame properties ---------------------------- *)

\* what a page or an NLQ answer leaves on the screen
RenderedByView(screen) ==
    \/ screen.page \in {"Dashboard", "Chamados Tecnicos", "Relatorios", "Pergunte com IA"}
    \/ screen \in {Msg("Nenhum chamado registrado."),
                    Msg("Nenhum chamado encontrado."),
                    Msg("Sem dados para os filtros selecionados."),
                    Msg("Sem dados de chamados."),
                    Msg("Nenhum chamado em aberto."),
                    Msg("Nenhum chamado fechado no filtro."),
                    Msg("Nao foi possivel calcular.")}

\* C17: a step that renders the dashboard, the technicians page, the report
\* or an NLQ answer (ages, overdue flags, SLA, averages) writes nothing:
\* tables chamados, pecas_usadas and historico_manutencao are the same
\* before and after.
C17_ViewsDoNotWrite ==
    [][RenderedByView(tela') =>
          UNCHANGED <<chamados, pecas_usadas, historico_manutencao>>]_vars

\* the dashboard rendered over two tickets, one open and one closed
C17_Witness ==
    /\ tela.page = "Dashboard"
    /\ tela.chamados = chamados
    /\ Len(chamados) = 2
    /\ tela.abertos = 1
    /\ tela.fechados = 1

(* ------------------ properties of the ticket lifecycle ----------------- *)

\* C18: once a ticket has a close timestamp, a step either keeps that
\* timestamp or clears it (a reopen): no call, finalizar_chamado on an
\* already closed ticket included, replaces it by a later value.
C18_CloseTimestampSetOnce ==
    [][\A i \in DOMAIN chamados :
          chamados[i].hora_fechamento # None =>
              chamados'[i].hora_fechamento \in {chamados[i].hora_fechamento, None}]_vars

\* the ticket that the last successful reabrir_chamado reopened
Reopened(c) ==
    /\ tela.page = "mensagem"
    /\ tela.texto = "Chamado reaberto com sucesso!"
    /\ tela.id = c.id

\* C19: right after reabrir_chamado has reopened a closed ticket, its
\* hora_fechamento and solucao are empty, list_chamados_em_aberto returns it,
\* the technicians page, the report and NLQ classify it as open, and the
\* age shown for it is again the business-hours duration from its opening
\* to now.
C19_ReopenMakesOpenAgain ==
    \A i \in DOMAIN chamados :
        Reopened(chamados[i]) =>
            LET c == chamados[i]
            IN  /\ c.hora_fechamento = None
                /\ c.solucao = None
                /\ \E j \in DOMAIN list_chamados_em_aberto :
                       list_chamados_em_aberto[j] = c
                /\ tempo_util_txt(c) = [str |-> "Em aberto"]
                /\ relatorio_linha(c, now_fortaleza(agora), OverdueHours).em_aberto
                /\ nlq_em_aberto(c)
                /\ tecnicos_idade_uteis_h(c, now_fortaleza(agora)) =
                       Num(round_hours_2(BusinessAge(c, agora)))

\* C20: no step changes hora_abertura or protocolo of a stored ticket, and
\* no step removes a ticket: after add_chamado, the status updates,
\* finalizar_chamado and reabrir_chamado leave both fields as written at
\* creation.
C20_OpeningImmutable ==
    [][/\ Len(chamados') >= Len(chamados)
       /\ \A i \in DOMAIN chamados :
              /\ chamados'[i].hora_abertura = chamados[i].hora_abertura
              /\ chamados'[i].protocolo = chamados[i].protocolo
              /\ chamados'[i].id = chamados[i].id]_vars

\* ticket 1, opened Monday 08:00, has been marked as waiting for a part,
\* closed and is reopened the next Tuesday 09:00
C20_Witness ==
    /\ Len(chamados) >= 1
    /\ Reopened(chamados[1])
    /\ agora = At(8, 18)
    /\ n_finalizar = 2
    /\ chamados[1].status_chamado = [str |-> "Aguardando Peca"]
    /\ chamados[1].hora_abertura = strftime(naive(At(0, 16)))
    /\ chamados[1].protocolo = 1

(* ------------------------- protocol numbers ---------------------------- *)

\* thread w completes its insert in this step
Inserts(w) ==
    /\ pendentes[w].ativo
    /\ ~pendentes'[w].ativo
    /\ Len(chamados') = Len(chamados) + 1

\* C21: protocol allocation is an unlocked read-then-write.  The ticket a
\* call inserts carries the number the call read, whatever was inserted in
\* between; and a call that read the same list and has not inserted yet
\* holds the very same number, which its own insert will store: two calls
\* that both read before either inserts store the same protocol.
C21_InterleavedAddsShareProtocol ==
    [][\A w \in Workers :
          Inserts(w) =>
             LET novo == chamados'[Len(chamados')]
             IN  /\ novo.protocolo = pendentes[w].protocolo
                 /\ \A v \in Workers \ {w} :
                       (pendentes[v].ativo /\ pendentes[v].visto = pendentes[w].visto)
                          => pendentes'[v].protocolo = novo.protocolo]_vars

\* two calls read before either inserted, and both tickets are stored with
\* protocol 1
C21_Witness ==
    /\ Len(chamados) = 2
    /\ chamados[1].protocolo = 1
    /\ chamados[2].protocolo = 1
    /\ \A w \in Workers : ~pendentes[w].ativo

(* --------------------------- finalisation ------------------------------ *)

JustFinalized == tela.page = "mensagem" /\ tela.texto = "Chamado finalizado."

\* C22: immediately after a successful finalizar_chamado the ticket has
\* hora_fechamento (the time of the call) and solucao set, and
\* status_chamado, peca_necessaria and tecnico_responsavel null, whatever
\* they were before.
C22_FinalizeClearsStatus ==
    JustFinalized =>
       \A i \in DOMAIN chamados :
          chamados[i].id = tela.id =>
             /\ chamados[i].hora_fechamento = strftime(now_fortaleza(agora))
             /\ chamados[i].solucao # None
             /\ chamados[i].status_chamado = None
             /\ chamados[i].peca_necessaria = None
             /\ chamados[i].tecnico_responsavel = None

\* ticket 1 was finalized on the second Tuesday while ticket 2 is still
\* waiting for a part
C22_Witness ==
    /\ JustFinalized
    /\ tela.id = 1
    /\ Len(chamados) = 2
    /\ chamados[1].hora_fechamento = strftime(naive(At(8, 16)))
    /\ chamados[1].status_chamado = None
    /\ chamados[2].status_chamado = [str |-> "Aguardando Peca"]

(* --------------------------- notification ------------------------------ *)

JustOpened == tela.page = "mensagem" /\ tela.texto = "Chamado aberto com sucesso!"

\* C23: the WhatsApp notification is fire-and-forget.  After every
\* add_chamado whose insert succeeded the ticket is stored and its protocol
\* number is returned, whether the notification was sent, skipped because a
\* Twilio setting is missing, or failed; nothing is attempted without
\* settings or without a client; and with a client every technician number
\* is attempted, in order, whether or not an earlier send failed.
C23_NotificationFireAndForget ==
    JustOpened =>
       /\ Len(chamados) > 0
       /\ tela.retorno = Num(chamados[Len(chamados)].protocolo)
       /\ tela.twilio \in TwilioOutcomes
       /\ IF tela.twilio.settings /\ tela.twilio.client
          THEN /\ Len(tela.whatsapp) = Len(numbers_list)
               /\ \A i \in DOMAIN numbers_list :
                     /\ tela.whatsapp[i].to = numbers_list[i]
                     /\ tela.whatsapp[i].sent = tela.twilio.create[i]
          ELSE tela.whatsapp = <<>>

\* the send to the first number failed, the second number was still
\* attempted and sent, and the ticket is stored with the returned protocol
C23_Witness ==
    /\ JustOpened
    /\ Len(tela.whatsapp) = 2
    /\ ~tela.whatsapp[1].sent
    /\ tela.whatsapp[2].sent
    /\ tela.retorno = Num(2)
    /\ chamados[Len(chamados)].protocolo = 2

(* ---------------------- sequential protocol numbers -------------------- *)

Protocolos(rows) == {rows[i].protocolo : i \in DOMAIN rows}

\* C24: with add_chamado calls run one at a time, interleaved with
\* finalizar_chamado, reabrir_chamado and status updates, the first ticket
\* gets protocol 1, each new ticket gets the current maximum plus 1 (so it
\* exceeds every stored protocol), no two stored tickets share a protocol,
\* and a call whose protocol generation fails returns None and inserts
\* nothing.
C24_SequentialProtocols ==
    [][/\ Len(chamados') # Len(chamados) =>
             /\ Len(chamados') = Len(chamados) + 1
             /\ SubSeq(chamados', 1, Len(chamados)) = chamados
             /\ LET novo == chamados'[Len(chamados')]
                IN  /\ Len(chamados) = 0 => novo.protocolo = 1
                    /\ \A p \in Protocolos(chamados) : novo.protocolo > p
                    /\ Len(chamados) > 0 => novo.protocolo - 1 \in Protocolos(chamados)
                    /\ tela'.retorno = Num(novo.protocolo)
       /\ Cardinality(Protocolos(chamados')) = Len(chamados')
       /\ (tela'.page = "mensagem" /\ tela'.texto = "Erro ao gerar protocolo.") =>
             /\ tela'.retorno = None
             /\ chamados' = chamados]_vars

\* protocol generation failed with one ticket stored: None returned, still
\* one ticket
C24_WitnessGenerationFails ==
    /\ tela.page = "mensagem"
    /\ tela.texto = "Erro ao gerar protocolo."
    /\ tela.retorno = None
    /\ Len(chamados) = 1

\* two tickets opened one after the other, the first since closed and
\* reopened: protocols 1 and 2
C24_Witness ==
    /\ Len(chamados) = 2
    /\ chamados[1].protocolo = 1
    /\ chamados[2].protocolo = 2
    /\ historico_manutencao # <<>>
    /\ chamados[1].hora_fechamento = None
    /\ chamados[1].status_chamado # None

(* ------------------- atomicity of the finalisation --------------------- *)

\* finalizar_chamado has just returned for ticket id, with or without error
FinalizarReturned(screen) ==
    /\ screen.page = "mensagem"
    /\ screen.texto \in {"Chamado finalizado.", "Erro ao finalizar chamado."}

\* the ticket is closed with timestamp ts, every part entered has its
\* pecas_usadas row and, if the ticket has a patrimonio, the maintenance
\* record of that closure exists
ClosedWithRows(c, pecas, rows_pecas, rows_historico) ==
    /\ c.hora_fechamento # None
    /\ \A j \in DOMAIN pecas :
          \E k \in DOMAIN rows_pecas :
             /\ rows_pecas[k].chamado_id = c.id
             /\ rows_pecas[k].peca_nome = pecas[j]
             /\ rows_pecas[k].data_uso = c.hora_fechamento
    /\ c.patrimonio # None =>
          \E k \in DOMAIN rows_historico :
             /\ rows_historico[k].numero_patrimonio = c.patrimonio
             /\ rows_historico[k].data_manutencao = c.hora_fechamento

\* C25: finalizar_chamado is all-or-nothing.  When it returns for a stored
\* ticket, either the ticket is closed at the time of the call with all its
\* pecas_usadas rows and its historico_manutencao row, or the call wrote
\* nothing at all.
C25_FinalizarAllOrNothing ==
    [][FinalizarReturned(tela') =>
          \A i \in DOMAIN chamados' :
             chamados'[i].id = tela'.id =>
                \/ /\ chamados'[i].hora_fechamento = strftime(now_fortaleza(agora'))
                   /\ ClosedWithRows(chamados'[i], tela'.pecas,
                                     pecas_usadas', historico_manutencao')
                \/ /\ chamados' = chamados
                   /\ pecas_usadas' = pecas_usadas
                   /\ historico_manutencao' = historico_manutencao]_vars

(* ----------------------- status of closed tickets ---------------------- *)

\* C26: in every state reachable by add_chamado, atualizar_status_chamado /
\* marcar_aguardando_peca / limpar_status_aguardando, _update_status_chamado,
\* finalizar_chamado and reabrir_chamado, a closed ticket carries no
\* awaiting-part status: status_chamado, peca_necessaria and
\* tecnico_responsavel are null.
C26_ClosedNeverAwaiting ==
    \A i \in DOMAIN chamados :
       chamados[i].hora_fechamento # None =>
          /\ chamados[i].status_chamado = None
          /\ chamados[i].peca_necessaria = None
          /\ chamados[i].tecnico_responsavel = None

(* -------------------- open / closed across the views ------------------- *)

\* the open test of each view applied to a stored ticket: dashboard
\* (hora_fechamento is None), technicians page (not _eh_fechado), report
\* (fechamento_dt is NaT), NLQ (em_aberto), list_chamados_em_aberto
OpenTests(c) ==
    <<c.hora_fechamento = None,
      ~eh_fechado(c.hora_fechamento),
      to_datetime(c.hora_fechamento) = NaT,
      nlq_em_aberto(c),
      \E k \in DOMAIN list_chamados_em_aberto : list_chamados_em_aberto[k].id = c.id>>

\* C27: in every state reachable through add_chamado, finalizar_chamado and
\* reabrir_chamado (and the status updates), hora_fechamento of every ticket
\* is null or a well-formed DD/MM/YYYY HH:MM:SS timestamp, and the dashboard,
\* the technicians page, the report, NLQ and list_chamados_em_aberto classify
\* the ticket identically as open or closed.
C27_ViewsAgreeOnOpenClosed ==
    \A i \in DOMAIN chamados :
       LET c == chamados[i]
           tests == OpenTests(c)
       IN  /\ c.hora_fechamento = None \/ parses(c.hora_fechamento)
           /\ \A j \in DOMAIN tests : tests[j] = tests[1]

\* ticket 1 was closed and reopened, ticket 2 is closed
C27_Witness ==
    /\ Len(chamados) = 2
    /\ tela = MsgId("Chamado reaberto com sucesso!", 1)
    /\ OpenTests(chamados[1])[3]
    /\ parses(chamados[2].hora_fechamento)
    /\ ~OpenTests(chamados[2])[3]

(* ------------------------ nothing to reopen ---------------------------- *)

StoredIds == {chamados[i].id : i \in DOMAIN chamados}

OpenIds ==
    {chamados[i].id : i \in {j \in DOMAIN chamados : chamados[j].hora_fechamento = None}}

\* C29: reabrir_chamado changes nothing when there is nothing to reopen.  A
\* call that answers "not found" or "already open" leaves chamados,
\* historico_manutencao and pecas_usadas unchanged, with remover_historico
\* True as well; and a call never takes the reopening branch for an id that
\* is not stored or for a ticket that is open: it answers "reopened" only
\* for a ticket that was closed.
C29_ReopenNothingToReopen ==
    [][/\ tela' \in {Msg("Chamado nao encontrado."), Msg("Chamado ja esta em aberto.")} =>
             /\ chamados' = chamados
             /\ historico_manutencao' = historico_manutencao
             /\ pecas_usadas' = pecas_usadas
       /\ \A id_chamado \in 1..MaxChamados :
             tela' = MsgId("Chamado reaberto com sucesso!", id_chamado) =>
                id_chamado \in StoredIds \ OpenIds
       /\ tela' = Msg("Chamado nao encontrado.") => StoredIds # 1..MaxChamados
       /\ tela' = Msg("Chamado ja esta em aberto.") => OpenIds # {}]_vars

\* reabrir_chamado answered "already open" while the maintenance record of
\* an earlier closure of the ticket is still stored
C29_Witness ==
    /\ tela = Msg("Chamado ja esta em aberto.")
    /\ OpenIds # {}
    /\ \E k \in DOMAIN historico_manutencao :
          historico_manutencao[k].numero_patrimonio = [str |-> "PAT-1"]

(* --------------------------- termination ------------------------------- *)

\* the state of the loop after `iters` iterations: current is start before
\* the first one and midnight of day date(start) + iters afterwards, and the
\* loop has not run more often than there are calendar days from the date of
\* start to the date of end inclusive
LoopVariant ==
    IF comparable(start, end) /\ start.t < end.t
    THEN /\ iters <= date(end) - date(start) + 1
         /\ (pc \in {"loop", "done", "raised"} /\ iters = 0) => current = start
         /\ iters > 0 => current = naive((date(start) + iters) * DaySecs)
    ELSE iters = 0

Exited == pc \in {"done", "raised"}

\* C30: calculate_working_hours terminates for every start < end: current
\* moves to midnight of the next calendar day on every iteration, weekend or
\* weekday, so the loop runs at most once per calendar day from the date of
\* start to the date of end inclusive, and then the call exits.
C30_Terminates == []LoopVariant /\ <>Exited

\* Monday 08:00 to Wednesday of the next week 08:00: ten calendar days, ten
\* iterations (two of them on the weekend), then the return
C30_Witness ==
    /\ Finished /\ NaiveInputs
    /\ start.t = At(0, 16) /\ end.t = At(9, 16)
    /\ iters = 10
    /\ current = naive(10 * DaySecs)

(* ------------------------ session and page access --------------------- *)

\* the screen was rendered by login_page
LoginRendered(screen) == screen.page = "Login"

\* the screen was rendered by one of the admin-only pages Dashboard, Estoque,
\* Administracao
AdminPageRendered(screen) ==
    \/ screen.page \in {"Dashboard", "Estoque", "Administracao"}
    \/ screen = Msg("Nenhum chamado registrado.")

\* C28: after any sequence of login attempts, page selections and "Sair",
\* logged_in is true exactly when username is non-empty; a script run that
\* starts with logged_in false renders only the Login page; and a run that
\* starts logged in as a user for whom is_admin is false never renders
\* Dashboard, Estoque or Administracao.
C28_SessionAndPageAccess ==
    [][/\ session_state.logged_in <=> session_state.username # ""
       /\ session_state'.logged_in <=> session_state'.username # ""
       /\ ~session_state.logged_in => LoginRendered(tela')
       /\ (session_state.logged_in /\ ~is_admin(session_state.username)) =>
             ~AdminPageRendered(tela')]_vars

\* "ana", who is not an admin, is logged in, has opened a ticket and is
\* looking at the technicians page
C28_Witness ==
    /\ session_state = [logged_in |-> TRUE, username |-> "ana"]
    /\ Len(chamados) > 0
    /\ tela.page = "Chamados Tecnicos"

====
